---- MODULE Spec2Model ----
(***************************************************************************)
(* FakeDb<K, V, I>: an in-process keyed store (src/src/lib.rs) with a      *)
(* pluggable Identifier strategy (src/src/identifier.rs) and the matcher / *)
(* updater arguments of src/src/args.rs.                                   *)
(*                                                                         *)
(* V is the tests' Country {id, name}; K is u32.  Two strategies are       *)
(* modelled: the tests' CountryId (key = value.id, is_autogenerated =      *)
(* true) and Sequence (key = counter, is_autogenerated = false).           *)
(*                                                                         *)
(* Spec is the single-caller machine: every public operation is one        *)
(* action that runs the whole handler and leaves the call, its result and  *)
(* the state it started from for the caller to inspect; the caller then    *)
(* drops them and calls again.                                             *)
(*                                                                         *)
(* SpecC is the machine with NumThreads concurrent callers of a store     *)
(* keyed by CountryId: the storage Mutex is explicit, and a call is a      *)
(* sequence of steps that other callers' steps may interleave with.        *)
(* SpecSeq is the same for a store keyed by a Sequence, whose own Mutex is *)
(* explicit too, and SpecLive adds the other operations and fair           *)
(* scheduling.  SpecRace is the scenario of callers that all insert under  *)
(* one key.                                                                *)
(* SpecDefault is the single caller of a store made by FakeDb::default,    *)
(* with a higher cap on the Sequence counter and fewer values.             *)
(***************************************************************************)
EXTENDS Integers, Sequences, FiniteSets, TLC

\* ---------------------------------------------------------------- bounds
\* Country ids are 1..MaxId.
MaxId == 4
\* insert_many batches hold at most MaxBatch values.
MaxBatch == 2
\* The Sequence counter is not advanced beyond MaxCounter.
MaxCounter == 2
\* There are NumThreads concurrent callers.
NumThreads == 2
\* The values concurrent callers pass have ids 1..MaxRaceId.
MaxRaceId == 2
\* Concurrent callers do not advance the Sequence counter beyond MaxIssued.
MaxIssued == 3
\* The single caller of FakeDb::default does not advance it beyond MaxSeq.
MaxSeq == 4

Ids == 1..MaxId
Names == {"Peru", "Unknown"}

\* tests::Country
Country == [id : Ids, name : Names]

VARIABLES
    storage,     \* FakeDb.storage: the HashMap<K, V> behind the Mutex
    identifier,  \* FakeDb.identifier: which strategy the store was built with
    last_id,     \* Sequence.last_id
    call,        \* the last call: operation and arguments
    result,      \* what the last call returned
    before,      \* storage and last_id when the last call started
    derived,     \* the ids new_id returned during the last call, in order
    pc,          \* the caller: "ready" to call, or holding what "returned"
    th,          \* concurrent callers: each one's position, arguments and locals
    guard,       \* the storage Mutex: who holds it, and whether it is poisoned
    seq_guard,   \* the Mutex around Sequence.last_id: who holds it
    committed,   \* the storage as the last completed call left it
    issued       \* the ids Sequence::new_id returned to concurrent callers, in order

seqVars == <<call, result, before, derived, pc>>
concVars == <<th, guard, seq_guard, committed, issued>>
vars == <<storage, identifier, last_id, call, result, before, derived, pc,
          th, guard, seq_guard, committed, issued>>

\* ------------------------------------------------------- HashMap<K, V>
EmptyMap == [k \in {} |-> 0]

\* HashMap::insert
MapPut(m, k, v) == [x \in DOMAIN m \cup {k} |-> IF x = k THEN v ELSE m[x]]

\* HashMap::remove (the map afterwards)
MapRemove(m, k) == [x \in DOMAIN m \ {k} |-> m[x]]

\* HashMap::extend: entries of t overwrite entries of m
MapExtend(m, t) == [x \in DOMAIN m \cup DOMAIN t |-> IF x \in DOMAIN t THEN t[x] ELSE m[x]]

\* Option<V>
None == <<>>
Some(v) == <<v>>

\* HashMap::get(..).cloned()
MapGet(m, k) == IF k \in DOMAIN m THEN Some(m[k]) ELSE None

\* ------------------------------------------------------------ Identifier
Strategies == {"CountryId", "Sequence"}

\* *last_id += 1
SeqIncrement(last) == last + 1

\* Faulty variant: the value before the increment
SeqReadPrevious(last) == last - 1

\* *last_id, read after the increment
SeqRead(last) == last

\* Sequence::new_id: increments the counter and returns it
SequenceNewId(last) ==
    [id |-> SeqRead(SeqIncrement(last)), last_id |-> SeqIncrement(last)]

\* tests::CountryId::new_id: the value's id field
CountryIdNewId(value) == value.id

\* Identifier::new_id, by strategy: the id and the counter afterwards
NewId(ident, last, value) ==
    IF ident = "Sequence"
    THEN SequenceNewId(last)
    ELSE [id |-> CountryIdNewId(value), last_id |-> last]

\* Faulty variant: the two strategies' answers swapped
IsAutogeneratedInverted(ident) == ident = "Sequence"

\* Identifier::is_autogenerated: CountryId true, Sequence false
IsAutogenerated(ident) == ident = "CountryId"

\* ------------------------------------------------------------ arguments
NoName == ""

\* Matcher closures: |_| true, |c| c.id < n, |c| c.name == x
Matchers ==
    {[kind |-> "all", n |-> 0, name |-> NoName]}
    \cup {[kind |-> "id_lt", n |-> n, name |-> NoName] : n \in Ids}
    \cup {[kind |-> "name_eq", n |-> 0, name |-> x] : x \in Names}

Matches(matcher, value) ==
    CASE matcher.kind = "all" -> TRUE
      [] matcher.kind = "id_lt" -> value.id < matcher.n
      [] matcher.kind = "name_eq" -> value.name = matcher.name

\* Updater closures: |_| {}, |c| c.name = x, |c| c.id = n, |c| c.id = c.id % MaxId + 1
Updaters ==
    {[kind |-> "noop", n |-> 0, name |-> NoName]}
    \cup {[kind |-> "set_name", n |-> 0, name |-> x] : x \in Names}
    \cup {[kind |-> "set_id", n |-> n, name |-> NoName] : n \in Ids}
    \cup {[kind |-> "next_id", n |-> 0, name |-> NoName]}

Apply(updater, value) ==
    CASE updater.kind = "noop" -> value
      [] updater.kind = "set_name" -> [value EXCEPT !.name = updater.name]
      [] updater.kind = "set_id" -> [value EXCEPT !.id = updater.n]
      [] updater.kind = "next_id" -> [value EXCEPT !.id = (value.id % MaxId) + 1]

\* CompareClosure closures: none given, |a, b| a.id.cmp(&b.id), |a, b| a.name.cmp(&b.name)
Comparators == {"none", "by_id", "by_name"}

\* &str ordering of the names: "Peru" < "Unknown"
NameRank(name) == IF name = "Peru" THEN 1 ELSE 2

\* Ordering::Less, Equal or Greater of a against b, as -1, 0, 1
Compare(order, a, b) ==
    LET x == IF order = "by_id" THEN a.id ELSE NameRank(a.name)
        y == IF order = "by_id" THEN b.id ELSE NameRank(b.name)
    IN  IF x < y THEN -1 ELSE IF x = y THEN 0 ELSE 1

\* ---------------------------------------------------------------- results
Ok == [kind |-> "Ok", key |-> 0, ret |-> <<>>]
OkWith(ret) == [kind |-> "Ok", key |-> 0, ret |-> ret]
\* errors::Conflict, errors::KeyNotFound, errors::Cardinality, each with its key
ErrConflict(key) == [kind |-> "Conflict", key |-> key, ret |-> <<>>]
ErrKeyNotFound(key) == [kind |-> "KeyNotFound", key |-> key, ret |-> <<>>]
ErrCardinality(key) == [kind |-> "Cardinality", key |-> key, ret |-> <<>>]

\* What a handler leaves behind: the map, the counter, the result, the ids derived
Outcome(m, last, res, ids) ==
    [storage |-> m, last_id |-> last, result |-> res, derived |-> ids]

\* ------------------------------------------------------------ find_by_id
\* find_by_id: storage.get(id).cloned()
FindById(m, id) == MapGet(m, id)

\* ---------------------------------------------------- find_many, find_one
\* The keys a matcher selects
Matched(m, matcher) == {k \in DOMAIN m : Matches(matcher, m[k])}

\* The orders in which a HashMap may iterate over the keys S
Orders(S) ==
    {o \in [1..Cardinality(S) -> S] : \A i, j \in DOMAIN o : i # j => o[i] # o[j]}

\* One step of a stable sort: v goes after every element that is not greater
RECURSIVE InsertSorted(_, _, _)
InsertSorted(order, sorted, v) ==
    IF sorted = <<>>
    THEN <<v>>
    ELSE IF Compare(order, sorted[Len(sorted)], v) <= 0
         THEN Append(sorted, v)
         ELSE Append(InsertSorted(order, SubSeq(sorted, 1, Len(sorted) - 1), v),
                     sorted[Len(sorted)])

RECURSIVE SortFrom(_, _, _, _)
SortFrom(order, matches, i, sorted) ==
    IF i > Len(matches)
    THEN sorted
    ELSE SortFrom(order, matches, i + 1, InsertSorted(order, sorted, matches[i]))

\* Faulty variant: the comparator is not applied
SortBySkipped(order, matches) == matches

\* matches.sort_by(order): a stable sort
SortBy(order, matches) == SortFrom(order, matches, 1, <<>>)

\* _find_many; ids is the matched keys in the map's iteration order
FindMany(m, order, ids) ==
    LET matches == [i \in DOMAIN ids |-> m[ids[i]]]
    IN  IF order # "none" THEN SortBy(order, matches) ELSE matches

\* Faulty variant: the last element instead of the first
FirstIsLast(found) == IF found = <<>> THEN None ELSE Some(found[Len(found)])

\* v.first().cloned()
First(found) == IF found = <<>> THEN None ELSE Some(found[1])

\* find_one: the first element of what find_many returns
FindOne(m, order, ids) == First(FindMany(m, order, ids))

\* ---------------------------------------------------------------- insert
\* Faulty variant: no check for a stored key
InsertOverwrites(ident, m, last, value) ==
    LET n == NewId(ident, last, value)
    IN  Outcome(MapPut(m, n.id, value), n.last_id, Ok, <<n.id>>)

\* insert: Conflict when the derived key is stored, else HashMap::insert
Insert(ident, m, last, value) ==
    LET n == NewId(ident, last, value)
    IN  IF MapGet(m, n.id) # None
        THEN Outcome(m, n.last_id, ErrConflict(n.id), <<n.id>>)
        ELSE Outcome(MapPut(m, n.id, value), n.last_id, Ok, <<n.id>>)

\* update's critical section, the key already derived
UpdateAt(m, id, value) ==
    IF MapGet(m, id) # None
    THEN [storage |-> MapPut(m, id, value), result |-> Ok]
    ELSE [storage |-> m, result |-> ErrKeyNotFound(id)]

\* ---------------------------------------------------------- delete_by_id
\* Faulty variant: every record is removed
DeleteByIdClears(m, id) == [storage |-> EmptyMap, ret |-> MapGet(m, id)]

\* Faulty variant: the record is returned but not removed
DeleteByIdKeeps(m, id) == [storage |-> m, ret |-> MapGet(m, id)]

\* delete_by_id: storage.remove(id)
DeleteById(m, id) == [storage |-> MapRemove(m, id), ret |-> MapGet(m, id)]

\* ----------------------------------------------------------- insert_many
\* check_cardinality: derive every value's id; the first id already seen fails
RECURSIVE CheckCardinalityFrom(_, _, _, _, _, _)
CheckCardinalityFrom(ident, last, values, i, ids, ders) ==
    IF i > Len(values)
    THEN [last_id |-> last, result |-> Ok, derived |-> ders]
    ELSE LET n == NewId(ident, last, values[i])
         IN  IF n.id \in ids
             THEN [last_id |-> n.last_id, result |-> ErrCardinality(n.id),
                   derived |-> Append(ders, n.id)]
             ELSE CheckCardinalityFrom(ident, n.last_id, values, i + 1,
                                       ids \cup {n.id}, Append(ders, n.id))

\* Faulty variant: no pre-check
CheckCardinalitySkipped(ident, last, values) ==
    [last_id |-> last, result |-> Ok, derived |-> <<>>]

CheckCardinality(ident, last, values) ==
    CheckCardinalityFrom(ident, last, values, 1, {}, <<>>)

\* Faulty variant: the values staged so far are written before the Conflict
StageConflictIgnored(m, stage, last, id, ders) ==
    Outcome(MapExtend(m, stage), last, ErrConflict(id), ders)

\* What _insert_many does on a key that is already stored: return Conflict
StageConflict(m, stage, last, id, ders) ==
    Outcome(m, last, ErrConflict(id), ders)

\* Faulty variant: the stage replaces the storage
CommitStageReplaces(m, stage) == stage

\* The end of _insert_many: storage.extend(stage_storage)
CommitStage(m, stage) == MapExtend(m, stage)

\* _insert_many: stage every value under its id, then extend the storage
RECURSIVE InsertManyFrom(_, _, _, _, _, _, _)
InsertManyFrom(ident, m, last, values, i, stage, ders) ==
    IF i > Len(values)
    THEN Outcome(CommitStage(m, stage), last, Ok, ders)
    ELSE LET n == NewId(ident, last, values[i])
         IN  IF MapGet(m, n.id) = None
             THEN InsertManyFrom(ident, m, n.last_id, values, i + 1,
                                 MapPut(stage, n.id, values[i]), Append(ders, n.id))
             ELSE StageConflict(m, stage, n.last_id, n.id, Append(ders, n.id))

InsertMany(ident, m, last, values) ==
    LET c == CheckCardinality(ident, last, values)
    IN  IF c.result.kind # "Ok"
        THEN Outcome(m, c.last_id, c.result, c.derived)
        ELSE InsertManyFrom(ident, m, c.last_id, values, 1, EmptyMap, c.derived)

\* ---------------------------------------------------------------- update
\* Faulty variant: the value is written whether or not the key is stored
UpdateUpserts(ident, m, last, value) ==
    LET n == NewId(ident, last, value)
    IN  Outcome(MapPut(m, n.id, value), n.last_id, Ok, <<n.id>>)

\* update: HashMap::insert when the derived key is stored, else KeyNotFound
Update(ident, m, last, value) ==
    LET n == NewId(ident, last, value)
    IN  IF MapGet(m, n.id) # None
        THEN Outcome(MapPut(m, n.id, value), n.last_id, Ok, <<n.id>>)
        ELSE Outcome(m, n.last_id, ErrKeyNotFound(n.id), <<n.id>>)

\* ----------------------------------------------------------- update_many
\* storage.remove(id) for every id of ids
RemoveAll(m, ids) == [x \in DOMAIN m \ {ids[i] : i \in DOMAIN ids} |-> m[x]]

\* Faulty variant: the original key is always kept
RekeyNever(ident, last, id, value) == [id |-> id, last_id |-> last, derived |-> <<>>]

\* The id a transformed value is reinserted under
Rekey(ident, last, id, value) ==
    IF IsAutogenerated(ident)
    THEN LET n == NewId(ident, last, value)
         IN  [id |-> n.id, last_id |-> n.last_id, derived |-> <<n.id>>]
    ELSE [id |-> id, last_id |-> last, derived |-> <<>>]

\* Faulty variant: temp_storage is not consulted
FreeInStorageOnly(rest, temp, id) == MapGet(rest, id) = None

\* Whether id is free for a transformed value
IsFree(rest, temp, id) ==
    (IF MapGet(rest, id) # None THEN MapGet(rest, id) ELSE MapGet(temp, id)) = None

\* Faulty variant: nothing is restored
RollbackNothing(rest, values_before, temp) == rest

\* The rollback: storage.extend(values_before)
Rollback(rest, values_before, temp) == MapExtend(rest, values_before)

\* The commit: storage.extend(temp_storage)
Commit(rest, temp) == MapExtend(rest, temp)

\* The loop over the removed values: update, re-key, stage or roll back
RECURSIVE UpdateManyFrom(_, _, _, _, _, _, _, _, _)
UpdateManyFrom(ident, rest, last, values_before, updater, ids, i, temp, ders) ==
    IF i > Len(ids)
    THEN Outcome(Commit(rest, temp), last, Ok, ders)
    ELSE LET value == Apply(updater, values_before[ids[i]])
             n == Rekey(ident, last, ids[i], value)
         IN  IF IsFree(rest, temp, n.id)
             THEN UpdateManyFrom(ident, rest, n.last_id, values_before, updater, ids,
                                 i + 1, MapPut(temp, n.id, value), ders \o n.derived)
             ELSE Outcome(Rollback(rest, values_before, temp), n.last_id,
                          ErrConflict(n.id), ders \o n.derived)

\* update_many; ids is the matched keys in the map's iteration order, and
\* values_before the whole map as it was
UpdateMany(ident, m, last, matcher, updater, ids) ==
    UpdateManyFrom(ident, RemoveAll(m, ids), last, m, updater, ids, 1, EmptyMap, <<>>)

\* ----------------------------------------------------------- delete_many
RECURSIVE DeleteManyFrom(_, _, _, _)
DeleteManyFrom(m, ids, i, ret) ==
    IF i > Len(ids)
    THEN [storage |-> m, ret |-> ret]
    ELSE DeleteManyFrom(MapRemove(m, ids[i]), ids, i + 1, Append(ret, MapGet(m, ids[i])))

\* Faulty variant: the values are looked up after the records are removed
DeleteManyLooksUpLate(m, ids) ==
    [storage |-> RemoveAll(m, ids), ret |-> [i \in DOMAIN ids |-> MapGet(RemoveAll(m, ids), ids[i])]]

\* delete_many; ids is the matched keys in the map's iteration order
DeleteMany(m, ids) == DeleteManyFrom(m, ids, 1, <<>>)

NoCall ==
    [op |-> "none", value |-> <<>>, values |-> <<>>, id |-> 0,
     matcher |-> <<>>, updater |-> <<>>, order |-> "none"]

Snapshot == [storage |-> storage, last_id |-> last_id]

NoSnapshot == [storage |-> EmptyMap, last_id |-> 0]

\* -------------------------------------------------- concurrent callers
Threads == 1..NumThreads
NoThread == 0

NoResult == [kind |-> "none", key |-> 0, ret |-> <<>>]

\* errors::Locking
ErrLocking == [kind |-> "Locking", key |-> 0, ret |-> <<>>]

\* A caller between calls, and the locals of a call
Idle ==
    [pc |-> "idle", call |-> NoCall, key |-> 0, i |-> 0, seen |-> {},
     stage |-> EmptyMap, ids |-> <<>>, values_before |-> EmptyMap,
     back |-> "idle", owed |-> 0, result |-> NoResult]

\* Mutex::new
Unlocked == [holder |-> NoThread, poisoned |-> FALSE]

\* Faulty variant: lock() does not wait for the holder
CanLockAlways(g) == TRUE

\* Mutex::lock returns only while no one holds the Mutex
CanLock(g) == g.holder = NoThread

\* Faulty variant: a poisoned Mutex is used like a healthy one
PoisonIgnored(g) == FALSE

\* Mutex::lock returns Err(PoisonError) once a holder has panicked
Poisoned(g) == g.poisoned

\* The MutexGuard is held
Locked(g, t) == [g EXCEPT !.holder = t]

\* Faulty variant: the MutexGuard is never dropped
UnlockForgotten(g) == g

\* The MutexGuard is dropped on return
Unlock(g) == [g EXCEPT !.holder = NoThread]

\* The MutexGuard is dropped while its holder panics
UnlockPanicking(g) == [holder |-> NoThread, poisoned |-> TRUE]

\* Faulty variant: new_id does not wait for the holder of the counter
CanLockSequenceAlways(holder) == TRUE

\* self.last_id.lock() returns only while no one holds the counter
CanLockSequence(holder) == holder = NoThread

InitConc ==
    /\ th = [t \in Threads |-> Idle]
    /\ guard = Unlocked
    /\ seq_guard = NoThread
    /\ committed = EmptyMap
    /\ issued = <<>>

Init ==
    /\ storage = EmptyMap
    /\ identifier \in Strategies
    /\ last_id = 0
    /\ call = NoCall
    /\ result = Ok
    /\ before = NoSnapshot
    /\ derived = <<>>
    /\ pc = "ready"
    /\ InitConc

\* The counter is capped: a call that may derive n ids needs room for them
Room(n) == identifier = "Sequence" => last_id + n <= MaxCounter

Returns(out) ==
    /\ pc' = "returned"
    /\ storage' = out.storage
    /\ last_id' = out.last_id
    /\ result' = out.result
    /\ derived' = out.derived
    /\ before' = Snapshot
    /\ UNCHANGED <<identifier, concVars>>

DoInsert ==
    /\ pc = "ready"
    /\ \E value \in Country :
        /\ Room(1)
        /\ call' = [NoCall EXCEPT !.op = "insert", !.value = value]
        /\ Returns(Insert(identifier, storage, last_id, value))

DoFindById ==
    /\ pc = "ready"
    /\ \E id \in Ids :
        /\ call' = [NoCall EXCEPT !.op = "find_by_id", !.id = id]
        /\ Returns(Outcome(storage, last_id, OkWith(FindById(storage, id)), <<>>))

DoDeleteById ==
    /\ pc = "ready"
    /\ \E id \in Ids :
        /\ call' = [NoCall EXCEPT !.op = "delete_by_id", !.id = id]
        /\ LET d == DeleteById(storage, id)
           IN  Returns(Outcome(d.storage, last_id, OkWith(d.ret), <<>>))

\* Vec<V> of at most MaxBatch values
Batches == UNION {[1..n -> Country] : n \in 0..MaxBatch}

DoInsertMany ==
    /\ pc = "ready"
    /\ \E values \in Batches :
        /\ Room(2 * Len(values))
        /\ call' = [NoCall EXCEPT !.op = "insert_many", !.values = values]
        /\ Returns(InsertMany(identifier, storage, last_id, values))

DoUpdate ==
    /\ pc = "ready"
    /\ \E value \in Country :
        /\ Room(1)
        /\ call' = [NoCall EXCEPT !.op = "update", !.value = value]
        /\ Returns(Update(identifier, storage, last_id, value))

DoUpdateMany ==
    /\ pc = "ready"
    /\ \E matcher \in Matchers, updater \in Updaters :
        \E ids \in Orders(Matched(storage, matcher)) :
            /\ call' = [NoCall EXCEPT !.op = "update_many", !.matcher = matcher,
                                      !.updater = updater]
            /\ Returns(UpdateMany(identifier, storage, last_id, matcher, updater, ids))

DoDeleteMany ==
    /\ pc = "ready"
    /\ \E matcher \in Matchers :
        \E ids \in Orders(Matched(storage, matcher)) :
            /\ call' = [NoCall EXCEPT !.op = "delete_many", !.matcher = matcher]
            /\ LET d == DeleteMany(storage, ids)
               IN  Returns(Outcome(d.storage, last_id, OkWith(d.ret), <<>>))

DoFindMany ==
    /\ pc = "ready"
    /\ \E matcher \in Matchers, order \in Comparators :
        \E ids \in Orders(Matched(storage, matcher)) :
            /\ call' = [NoCall EXCEPT !.op = "find_many", !.matcher = matcher,
                                      !.order = order]
            /\ Returns(Outcome(storage, last_id, OkWith(FindMany(storage, order, ids)), <<>>))

DoFindOne ==
    /\ pc = "ready"
    /\ \E matcher \in Matchers, order \in Comparators :
        \E ids \in Orders(Matched(storage, matcher)) :
            /\ call' = [NoCall EXCEPT !.op = "find_one", !.matcher = matcher,
                                      !.order = order]
            /\ Returns(Outcome(storage, last_id, OkWith(FindOne(storage, order, ids)), <<>>))

\* The caller has looked at the result and drops it
Drop ==
    /\ pc = "returned"
    /\ pc' = "ready"
    /\ call' = NoCall
    /\ result' = Ok
    /\ before' = NoSnapshot
    /\ derived' = <<>>
    /\ UNCHANGED <<storage, identifier, last_id, concVars>>

Next ==
    \/ DoInsert
    \/ DoInsertMany
    \/ DoUpdate
    \/ DoUpdateMany
    \/ DoFindById
    \/ DoFindMany
    \/ DoFindOne
    \/ DoDeleteById
    \/ DoDeleteMany
    \/ Drop

Spec == Init /\ [][Next]_vars

\* ----------------------------------------------- concurrent callers: steps
\* What concurrent callers pass
RaceIds == 1..MaxRaceId
RaceCountry == [id : RaceIds, name : Names]
Inserted == {v \in RaceCountry : v.name = "Peru"}
Replacing == {v \in RaceCountry : v.name = "Unknown"}
RaceBatches == UNION {[1..n -> Inserted] : n \in 0..MaxBatch}
RaceMatchers == {m \in Matchers : m.kind = "all" \/ (m.kind = "id_lt" /\ m.n = MaxRaceId)}
RaceComparators == {"none", "by_id"}

\* An updater closure that panics
Panics == [kind |-> "panic", n |-> 0, name |-> NoName]

RaceUpdaters == {u \in Updaters : u.kind = "set_id" /\ u.n \in RaceIds} \cup {Panics}

RaceCalls ==
    {[NoCall EXCEPT !.op = "insert", !.value = v] : v \in Inserted}
    \cup {[NoCall EXCEPT !.op = "update", !.value = v] : v \in Replacing}
    \cup {[NoCall EXCEPT !.op = "insert_many", !.values = b] : b \in RaceBatches}
    \cup {[NoCall EXCEPT !.op = "update_many", !.matcher = m, !.updater = u] :
            m \in RaceMatchers, u \in RaceUpdaters}
    \cup {[NoCall EXCEPT !.op = "find_by_id", !.id = k] : k \in RaceIds}
    \cup {[NoCall EXCEPT !.op = o, !.matcher = m, !.order = c] :
            o \in {"find_many", "find_one"}, m \in RaceMatchers, c \in RaceComparators}
    \cup {[NoCall EXCEPT !.op = "delete_by_id", !.id = k] : k \in RaceIds}
    \cup {[NoCall EXCEPT !.op = "delete_many", !.matcher = m] : m \in RaceMatchers}

\* What callers of a store keyed by a Sequence pass to the operations that call
\* new_id (the Sequence ignores the value: the values differ in their names)
SeqValues == {v \in RaceCountry : v.id = 1}
SeqBatches == UNION {[1..n -> SeqValues] : n \in 0..MaxBatch}

SeqCalls ==
    {[NoCall EXCEPT !.op = "insert", !.value = v] : v \in SeqValues}
    \cup {[NoCall EXCEPT !.op = "update", !.value = v] : v \in SeqValues}
    \cup {[NoCall EXCEPT !.op = "insert_many", !.values = b] : b \in SeqBatches}

\* What they pass when they call the other operations too, with closures that
\* do not panic
LiveCalls ==
    {[NoCall EXCEPT !.op = "insert", !.value = v] : v \in SeqValues \cap Inserted}
    \cup {[NoCall EXCEPT !.op = "update", !.value = v] : v \in SeqValues \cap Replacing}
    \cup {[NoCall EXCEPT !.op = "insert_many", !.values = b] :
            b \in UNION {[1..n -> SeqValues \cap Inserted] : n \in 0..MaxBatch}}
    \cup {[NoCall EXCEPT !.op = "update_many", !.matcher = m, !.updater = u] :
            m \in RaceMatchers, u \in RaceUpdaters \ {Panics}}
    \cup {[NoCall EXCEPT !.op = "find_by_id", !.id = k] : k \in RaceIds}
    \cup {[NoCall EXCEPT !.op = "delete_many", !.matcher = m] : m \in RaceMatchers}

\* Where each operation starts
Entry(op) ==
    CASE op = "insert" -> "insert_id"
      [] op = "update" -> "update_id"
      [] op = "insert_many" -> "check"
      [] op = "update_many" -> "update_many_lock"
      [] op \in {"find_by_id", "find_many", "find_one"} -> "find"
      [] op \in {"delete_by_id", "delete_many"} -> "delete"

\* The new_id calls a call makes with the Sequence strategy
Need(c) ==
    CASE c.op \in {"insert", "update"} -> 1
      [] c.op = "insert_many" -> 2 * Len(c.values)
      [] OTHER -> 0

RECURSIVE OwedUpTo(_)
OwedUpTo(n) == IF n = 0 THEN 0 ELSE th[n].owed + OwedUpTo(n - 1)

\* The counter is capped: the ids the calls under way may still derive fit
RoomFor(c) ==
    identifier = "Sequence" => last_id + OwedUpTo(NumThreads) + Need(c) <= MaxIssued

\* The caller's record after a step, and after its call returned
Becomes(t, r) == th' = [th EXCEPT ![t] = r]
Done(t, res) == Becomes(t, [Idle EXCEPT !.pc = "returned", !.call = th[t].call, !.result = res])
Started(c) ==
    [Idle EXCEPT !.pc = Entry(c.op), !.call = c, !.i = 1,
                 !.owed = IF identifier = "Sequence" THEN Need(c) ELSE 0]

\* A caller starts a call
Call(t) ==
    /\ th[t].pc = "idle"
    /\ \E c \in RaceCalls : Becomes(t, Started(c))
    /\ UNCHANGED <<storage, identifier, last_id, guard, seq_guard, committed, issued, seqVars>>

\* A caller of a store keyed by a Sequence starts a call
CallSeq(t) ==
    /\ th[t].pc = "idle"
    /\ \E c \in SeqCalls : RoomFor(c) /\ Becomes(t, Started(c))
    /\ UNCHANGED <<storage, identifier, last_id, guard, seq_guard, committed, issued, seqVars>>

\* A caller of a store keyed by a Sequence starts a call of any kind
CallLive(t) ==
    /\ th[t].pc = "idle"
    /\ \E c \in LiveCalls : RoomFor(c) /\ Becomes(t, Started(c))
    /\ UNCHANGED <<storage, identifier, last_id, guard, seq_guard, committed, issued, seqVars>>

\* The caller drops what the call returned
Forget(t) ==
    /\ th[t].pc = "returned"
    /\ Becomes(t, Idle)
    /\ UNCHANGED <<storage, identifier, last_id, guard, seq_guard, committed, issued, seqVars>>

\* The value new_id is called with, and where the caller goes on with the id
CurrentValue(r) ==
    IF r.call.op \in {"insert", "update"} THEN r.call.value ELSE r.call.values[r.i]

After(at) ==
    CASE at = "insert_id" -> "insert_lock"
      [] at = "update_id" -> "update_cs"
      [] at = "check" -> "check_got"
      [] at = "stage" -> "stage_got"

\* self.identifier.new_id(&value): CountryId answers at once, Sequence locks its counter
NewIdCall(t) ==
    /\ \/ th[t].pc \in {"insert_id", "update_id"}
       \/ th[t].pc \in {"check", "stage"} /\ th[t].i <= Len(th[t].call.values)
    /\ IF identifier = "Sequence"
       THEN /\ CanLockSequence(seq_guard)
            /\ seq_guard' = t
            /\ Becomes(t, [th[t] EXCEPT !.pc = "seq_incr", !.back = After(th[t].pc)])
       ELSE /\ Becomes(t, [th[t] EXCEPT !.pc = After(th[t].pc),
                                        !.key = CountryIdNewId(CurrentValue(th[t]))])
            /\ UNCHANGED seq_guard
    /\ UNCHANGED <<storage, identifier, last_id, guard, committed, issued, seqVars>>

\* Sequence::new_id: *last_id += 1
SeqIncr(t) ==
    /\ th[t].pc = "seq_incr"
    /\ last_id' = SeqIncrement(last_id)
    /\ Becomes(t, [th[t] EXCEPT !.pc = "seq_read", !.owed = @ - 1])
    /\ UNCHANGED <<storage, identifier, guard, seq_guard, committed, issued, seqVars>>

\* Sequence::new_id: *last_id is returned and the counter's guard dropped
SeqReturn(t) ==
    /\ th[t].pc = "seq_read"
    /\ issued' = Append(issued, SeqRead(last_id))
    /\ seq_guard' = NoThread
    /\ Becomes(t, [th[t] EXCEPT !.pc = th[t].back, !.key = SeqRead(last_id)])
    /\ UNCHANGED <<storage, identifier, last_id, guard, committed, seqVars>>

\* insert: self.storage.lock().map_err(locking)?
InsertLock(t) ==
    /\ th[t].pc = "insert_lock"
    /\ CanLock(guard)
    /\ IF Poisoned(guard)
       THEN Done(t, ErrLocking) /\ UNCHANGED guard
       ELSE Becomes(t, [th[t] EXCEPT !.pc = "insert_check"]) /\ guard' = Locked(guard, t)
    /\ UNCHANGED <<storage, identifier, last_id, seq_guard, committed, issued, seqVars>>

\* insert: storage.get(&id).is_some()
InsertCheck(t) ==
    /\ th[t].pc = "insert_check"
    /\ IF MapGet(storage, th[t].key) # None
       THEN Done(t, ErrConflict(th[t].key)) /\ guard' = Unlock(guard)
       ELSE Becomes(t, [th[t] EXCEPT !.pc = "insert_put"]) /\ UNCHANGED guard
    /\ UNCHANGED <<storage, identifier, last_id, seq_guard, committed, issued, seqVars>>

\* insert: storage.insert(id, value); Ok(())
InsertPut(t) ==
    /\ th[t].pc = "insert_put"
    /\ storage' = MapPut(storage, th[t].key, th[t].call.value)
    /\ committed' = storage'
    /\ guard' = Unlock(guard)
    /\ Done(t, Ok)
    /\ UNCHANGED <<identifier, last_id, seq_guard, issued, seqVars>>

\* update: the critical section
UpdateCs(t) ==
    /\ th[t].pc = "update_cs"
    /\ CanLock(guard)
    /\ IF Poisoned(guard)
       THEN Done(t, ErrLocking) /\ UNCHANGED <<storage, committed>>
       ELSE LET u == UpdateAt(storage, th[t].key, th[t].call.value)
            IN  /\ storage' = u.storage
                /\ committed' = u.storage
                /\ Done(t, u.result)
    /\ UNCHANGED <<identifier, last_id, guard, seq_guard, issued, seqVars>>

\* The keys a call's matcher selects in m
SelectedBy(m, c) ==
    IF c.op \in {"find_by_id", "delete_by_id"} THEN {} ELSE Matched(m, c.matcher)

\* What a find returns on m; ids is the matched keys in iteration order
FindAnswer(m, c, ids) ==
    CASE c.op = "find_by_id" -> FindById(m, c.id)
      [] c.op = "find_many" -> FindMany(m, c.order, ids)
      [] c.op = "find_one" -> FindOne(m, c.order, ids)

\* find_by_id, find_many, find_one: the critical section
Find(t) ==
    /\ th[t].pc = "find"
    /\ CanLock(guard)
    /\ IF Poisoned(guard)
       THEN Done(t, ErrLocking)
       ELSE \E ids \in Orders(SelectedBy(storage, th[t].call)) :
                Done(t, OkWith(FindAnswer(storage, th[t].call, ids)))
    /\ UNCHANGED <<storage, identifier, last_id, guard, seq_guard, committed, issued, seqVars>>

\* What a delete does to m; ids is the matched keys in iteration order
DeleteAnswer(m, c, ids) ==
    IF c.op = "delete_by_id" THEN DeleteById(m, c.id) ELSE DeleteMany(m, ids)

\* delete_by_id, delete_many: the critical section
Delete(t) ==
    /\ th[t].pc = "delete"
    /\ CanLock(guard)
    /\ IF Poisoned(guard)
       THEN Done(t, ErrLocking) /\ UNCHANGED <<storage, committed>>
       ELSE \E ids \in Orders(SelectedBy(storage, th[t].call)) :
                LET d == DeleteAnswer(storage, th[t].call, ids)
                IN  /\ storage' = d.storage
                    /\ committed' = d.storage
                    /\ Done(t, OkWith(d.ret))
    /\ UNCHANGED <<identifier, last_id, guard, seq_guard, issued, seqVars>>

\* check_cardinality: !ids.insert(id)
CheckGot(t) ==
    /\ th[t].pc = "check_got"
    /\ IF th[t].key \in th[t].seen
       THEN Done(t, ErrCardinality(th[t].key))
       ELSE Becomes(t, [th[t] EXCEPT !.pc = "check", !.i = @ + 1,
                                     !.seen = @ \cup {th[t].key}])
    /\ UNCHANGED <<storage, identifier, last_id, guard, seq_guard, committed, issued, seqVars>>

\* check_cardinality: Ok(())
CheckDone(t) ==
    /\ th[t].pc = "check"
    /\ th[t].i > Len(th[t].call.values)
    /\ Becomes(t, [th[t] EXCEPT !.pc = "stage_lock"])
    /\ UNCHANGED <<storage, identifier, last_id, guard, seq_guard, committed, issued, seqVars>>

\* insert_many: self.storage.lock().map_err(locking)?
StageLock(t) ==
    /\ th[t].pc = "stage_lock"
    /\ CanLock(guard)
    /\ IF Poisoned(guard)
       THEN Done(t, ErrLocking) /\ UNCHANGED guard
       ELSE /\ Becomes(t, [th[t] EXCEPT !.pc = "stage", !.i = 1, !.stage = EmptyMap])
            /\ guard' = Locked(guard, t)
    /\ UNCHANGED <<storage, identifier, last_id, seq_guard, committed, issued, seqVars>>

\* _insert_many: the value is staged, or the call returns Conflict
StageGot(t) ==
    /\ th[t].pc = "stage_got"
    /\ IF MapGet(storage, th[t].key) = None
       THEN /\ Becomes(t, [th[t] EXCEPT !.pc = "stage", !.i = @ + 1,
                   !.stage = MapPut(@, th[t].key, th[t].call.values[th[t].i])])
            /\ UNCHANGED <<storage, committed, guard>>
       ELSE LET out == StageConflict(storage, th[t].stage, last_id, th[t].key, <<>>)
            IN  /\ storage' = out.storage
                /\ committed' = out.storage
                /\ guard' = Unlock(guard)
                /\ Done(t, out.result)
    /\ UNCHANGED <<identifier, last_id, seq_guard, issued, seqVars>>

\* _insert_many: storage.extend(stage_storage); Ok(())
StageCommit(t) ==
    /\ th[t].pc = "stage"
    /\ th[t].i > Len(th[t].call.values)
    /\ storage' = CommitStage(storage, th[t].stage)
    /\ committed' = storage'
    /\ guard' = Unlock(guard)
    /\ Done(t, Ok)
    /\ UNCHANGED <<identifier, last_id, seq_guard, issued, seqVars>>

\* update_many: the lock, values_before, ids, and the matched records removed
UpdateManyLock(t) ==
    /\ th[t].pc = "update_many_lock"
    /\ CanLock(guard)
    /\ IF Poisoned(guard)
       THEN Done(t, ErrLocking) /\ UNCHANGED <<storage, guard>>
       ELSE \E ids \in Orders(Matched(storage, th[t].call.matcher)) :
                /\ Becomes(t, [th[t] EXCEPT !.pc = "update_many_loop", !.ids = ids,
                                            !.values_before = storage])
                /\ storage' = RemoveAll(storage, ids)
                /\ guard' = Locked(guard, t)
    /\ UNCHANGED <<identifier, last_id, seq_guard, committed, issued, seqVars>>

\* update_many: the loop over the removed values; the updater may panic
UpdateManyLoop(t) ==
    /\ th[t].pc = "update_many_loop"
    /\ IF th[t].call.updater = Panics /\ th[t].ids # <<>>
       THEN /\ Becomes(t, [th[t] EXCEPT !.pc = "panicked"])
            /\ guard' = UnlockPanicking(guard)
            /\ UNCHANGED <<storage, committed>>
       ELSE LET out == UpdateManyFrom(identifier, storage, last_id, th[t].values_before,
                                      th[t].call.updater, th[t].ids, 1, EmptyMap, <<>>)
            IN  /\ storage' = out.storage
                /\ committed' = out.storage
                /\ guard' = Unlock(guard)
                /\ Done(t, out.result)
    /\ UNCHANGED <<identifier, last_id, seq_guard, issued, seqVars>>

\* Callers of a store keyed by the value's own id (tests::CountryId)
InitC == Init /\ identifier = "CountryId"

StepC(t) ==
    \/ Call(t)
    \/ NewIdCall(t)
    \/ InsertLock(t)
    \/ InsertCheck(t)
    \/ InsertPut(t)
    \/ UpdateCs(t)
    \/ Find(t)
    \/ Delete(t)
    \/ CheckGot(t)
    \/ CheckDone(t)
    \/ StageLock(t)
    \/ StageGot(t)
    \/ StageCommit(t)
    \/ UpdateManyLock(t)
    \/ UpdateManyLoop(t)
    \/ Forget(t)

NextC == \E t \in Threads : StepC(t)

SpecC == InitC /\ [][NextC]_vars

\* Callers of a store keyed by a Sequence
InitSeq == Init /\ identifier = "Sequence"

StepSeq(t) ==
    \/ CallSeq(t)
    \/ NewIdCall(t)
    \/ SeqIncr(t)
    \/ SeqReturn(t)
    \/ InsertLock(t)
    \/ InsertCheck(t)
    \/ InsertPut(t)
    \/ UpdateCs(t)
    \/ CheckGot(t)
    \/ CheckDone(t)
    \/ StageLock(t)
    \/ StageGot(t)
    \/ StageCommit(t)
    \/ Forget(t)

NextSeq == \E t \in Threads : StepSeq(t)

SpecSeq == InitSeq /\ [][NextSeq]_vars

\* Callers of a store keyed by a Sequence, under fair scheduling: a caller
\* waiting for a guard gets it if it is free again and again, and a caller that
\* can take its next step does so
Acquire(t) ==
    \/ NewIdCall(t)
    \/ InsertLock(t)
    \/ UpdateCs(t)
    \/ Find(t)
    \/ Delete(t)
    \/ StageLock(t)
    \/ UpdateManyLock(t)

Run(t) ==
    \/ SeqIncr(t)
    \/ SeqReturn(t)
    \/ InsertCheck(t)
    \/ InsertPut(t)
    \/ CheckGot(t)
    \/ CheckDone(t)
    \/ StageGot(t)
    \/ StageCommit(t)
    \/ UpdateManyLoop(t)

StepLive(t) == CallLive(t) \/ Acquire(t) \/ Run(t) \/ Forget(t)

NextLive == \E t \in Threads : StepLive(t)

FairLive == \A t \in Threads : SF_vars(Acquire(t)) /\ WF_vars(Run(t))

SpecLive == InitSeq /\ [][NextLive]_vars /\ FairLive

\* ------------------------------------------- callers racing to insert one key
\* Stores keyed by the value's own id
RaceStores ==
    {m \in UNION {[S -> RaceCountry] : S \in SUBSET RaceIds} :
        \A k \in DOMAIN m : m[k].id = k}

InitRace ==
    /\ storage \in RaceStores
    /\ committed = storage
    /\ identifier = "CountryId"
    /\ last_id = 0
    /\ call = NoCall
    /\ result = Ok
    /\ before = NoSnapshot
    /\ derived = <<>>
    /\ pc = "ready"
    /\ th = [t \in Threads |-> Idle]
    /\ guard = Unlocked
    /\ seq_guard = NoThread
    /\ issued = <<>>

\* Each caller inserts once: a value whose key the store does not hold when the
\* first of them calls, and which is the key of all the other callers' values
RaceCall(t) ==
    /\ th[t].pc = "idle"
    /\ \E v \in RaceCountry :
        /\ \A u \in Threads : th[u].pc # "idle" => th[u].call.value.id = v.id
        /\ (\A u \in Threads : th[u].pc = "idle") => v.id \notin DOMAIN storage
        /\ Becomes(t, Started([NoCall EXCEPT !.op = "insert", !.value = v]))
    /\ UNCHANGED <<storage, identifier, last_id, guard, seq_guard, committed, issued, seqVars>>

StepRace(t) ==
    \/ RaceCall(t)
    \/ NewIdCall(t)
    \/ InsertLock(t)
    \/ InsertCheck(t)
    \/ InsertPut(t)

NextRace == \E t \in Threads : StepRace(t)

SpecRace == InitRace /\ [][NextRace]_vars

\* ------------------------------- the single caller of FakeDb::default()
\* What the caller passes: two values of one id, updaters that change the name
\* or the id, matchers that select all records or some
DefaultUpdaters ==
    {u \in Updaters : u.kind = "set_name" \/ (u.kind = "set_id" /\ u.n = MaxRaceId)}
DefaultKeys == 1..MaxSeq

\* The counter is capped: a call that derives n ids needs room for them
RoomDefault(n) == last_id + n <= MaxSeq

InsertDefault ==
    /\ pc = "ready"
    /\ \E value \in SeqValues :
        /\ RoomDefault(1)
        /\ call' = [NoCall EXCEPT !.op = "insert", !.value = value]
        /\ Returns(Insert(identifier, storage, last_id, value))

InsertManyDefault ==
    /\ pc = "ready"
    /\ \E values \in SeqBatches :
        /\ RoomDefault(2 * Len(values))
        /\ call' = [NoCall EXCEPT !.op = "insert_many", !.values = values]
        /\ Returns(InsertMany(identifier, storage, last_id, values))

UpdateDefault ==
    /\ pc = "ready"
    /\ \E value \in SeqValues :
        /\ RoomDefault(1)
        /\ call' = [NoCall EXCEPT !.op = "update", !.value = value]
        /\ Returns(Update(identifier, storage, last_id, value))

UpdateManyDefault ==
    /\ pc = "ready"
    /\ \E matcher \in RaceMatchers, updater \in DefaultUpdaters :
        \E ids \in Orders(Matched(storage, matcher)) :
            /\ call' = [NoCall EXCEPT !.op = "update_many", !.matcher = matcher,
                                      !.updater = updater]
            /\ Returns(UpdateMany(identifier, storage, last_id, matcher, updater, ids))

FindByIdDefault ==
    /\ pc = "ready"
    /\ \E id \in DefaultKeys :
        /\ call' = [NoCall EXCEPT !.op = "find_by_id", !.id = id]
        /\ Returns(Outcome(storage, last_id, OkWith(FindById(storage, id)), <<>>))

DeleteByIdDefault ==
    /\ pc = "ready"
    /\ \E id \in DefaultKeys :
        /\ call' = [NoCall EXCEPT !.op = "delete_by_id", !.id = id]
        /\ LET d == DeleteById(storage, id)
           IN  Returns(Outcome(d.storage, last_id, OkWith(d.ret), <<>>))

DeleteManyDefault ==
    /\ pc = "ready"
    /\ \E matcher \in RaceMatchers :
        \E ids \in Orders(Matched(storage, matcher)) :
            /\ call' = [NoCall EXCEPT !.op = "delete_many", !.matcher = matcher]
            /\ LET d == DeleteMany(storage, ids)
               IN  Returns(Outcome(d.storage, last_id, OkWith(d.ret), <<>>))

NextDefault ==
    \/ InsertDefault
    \/ InsertManyDefault
    \/ UpdateDefault
    \/ UpdateManyDefault
    \/ FindByIdDefault
    \/ DeleteByIdDefault
    \/ DeleteManyDefault
    \/ Drop

SpecDefault == InitSeq /\ [][NextDefault]_vars

\* =================================================================== claims
\* The store and the counter the last call started from, and its arguments
Pre == before.storage
PreKeys == DOMAIN before.storage
Keys == DOMAIN storage

\* storage holds everything m holds, under the same keys
Keeps(m) == \A k \in DOMAIN m : k \in Keys /\ storage[k] = m[k]

\* The records the last update_many selected, and the key each is due under
Selected == Matched(Pre, call.matcher)
Unselected == PreKeys \ Selected
Updated(k) == Apply(call.updater, Pre[k])
Recomputed(k) == IF identifier = "CountryId" THEN Updated(k).id ELSE k

\* C1: an insert_many rejected with Cardinality or Conflict leaves the store
\* exactly as it was: no value of the batch is inserted.
C1_InsertManyRejectedUnchanged ==
    (call.op = "insert_many" /\ result.kind \in {"Cardinality", "Conflict"})
        => storage = Pre

\* A batch of two rejected with Conflict on its second value, whose first value
\* had a free key
C1_Witness ==
    /\ call.op = "insert_many"
    /\ result.kind = "Conflict"
    /\ Len(call.values) = 2
    /\ call.values[1].id \notin PreKeys
    /\ result.key = call.values[2].id
    /\ Pre # EmptyMap

\* C2: an update_many that fails with Conflict leaves the store equal to its
\* pre-call state: matched records back under their keys with their original
\* values, unmatched ones untouched.
C2_UpdateManyConflictRestores ==
    (call.op = "update_many" /\ result.kind = "Conflict") => storage = Pre

\* A Conflict with two records selected, one left alone, and an updater that
\* changes what it is given
C2_Witness ==
    /\ call.op = "update_many"
    /\ result.kind = "Conflict"
    /\ Cardinality(Selected) >= 2
    /\ Unselected # {}
    /\ \E k \in Selected : Updated(k) # Pre[k]

\* C3: after a successful update_many the store is the unselected records,
\* unchanged, plus each selected record's updated value under its recomputed key
\* (derived from the updated value when the strategy is autogenerated, else the
\* original key); the number of records is unchanged.
C3_UpdateManySuccess ==
    (call.op = "update_many" /\ result.kind = "Ok") =>
        /\ Keys = Unselected \cup {Recomputed(k) : k \in Selected}
        /\ \A k \in Unselected : storage[k] = Pre[k]
        /\ \A k \in Selected : storage[Recomputed(k)] = Updated(k)
        /\ Cardinality(Keys) = Cardinality(PreKeys)

\* A success that moved two records to other keys and left a third alone
C3_Witness ==
    /\ call.op = "update_many"
    /\ result.kind = "Ok"
    /\ Cardinality(Selected) >= 2
    /\ Unselected # {}
    /\ \A k \in Selected : Recomputed(k) # k

\* C4: update_many fails with Conflict exactly when a recomputed key equals the
\* key of an unselected record or the recomputed key of another selected record;
\* equalling the old key of a selected record is no Conflict.
C4_Collides ==
    \E k \in Selected :
        \/ Recomputed(k) \in Unselected
        \/ \E j \in Selected \ {k} : Recomputed(j) = Recomputed(k)

C4_UpdateManyConflictIff ==
    call.op = "update_many" => (result.kind = "Conflict" <=> C4_Collides)

\* A success in which a record moved onto the old key of another selected record
C4_Witness ==
    /\ call.op = "update_many"
    /\ result.kind = "Ok"
    /\ \E k \in Selected : \E j \in Selected \ {k} : Recomputed(k) = j

\* C5: insert(value) with derived key k fails with Conflict and changes nothing
\* when k is stored, and otherwise succeeds and adds exactly k -> value.
C5_Insert ==
    call.op = "insert" =>
        LET k == derived[1]
        IN  IF k \in PreKeys
            THEN result.kind = "Conflict" /\ storage = Pre
            ELSE /\ result.kind = "Ok"
                 /\ Keys = PreKeys \cup {k}
                 /\ storage[k] = call.value
                 /\ Keeps(Pre)

\* A Conflict on a key that holds another value than the one inserted
C5_Witness ==
    /\ call.op = "insert"
    /\ result.kind = "Conflict"
    /\ Pre[derived[1]] # call.value

\* C6: update(value) with derived key k fails with KeyNotFound and changes
\* nothing (no record is created) when k is not stored, and otherwise succeeds,
\* sets the value under k and leaves the key set and every other record alone.
C6_Update ==
    call.op = "update" =>
        LET k == derived[1]
        IN  IF k \notin PreKeys
            THEN result.kind = "KeyNotFound" /\ storage = Pre
            ELSE /\ result.kind = "Ok"
                 /\ Keys = PreKeys
                 /\ storage[k] = call.value
                 /\ \A x \in PreKeys \ {k} : storage[x] = Pre[x]

\* A KeyNotFound on a store that holds other records
C6_Witness ==
    /\ call.op = "update"
    /\ result.kind = "KeyNotFound"
    /\ Pre # EmptyMap

\* C7: after a successful insert(v) under key k, find_by_id(k) returns Some(v), a
\* following delete_by_id(k) returns Some(v), and find_by_id(k) then returns None.
C7_RoundTrip ==
    (call.op = "insert" /\ result.kind = "Ok") =>
        LET k == derived[1]
            d == DeleteById(storage, k)
        IN  /\ FindById(storage, k) = Some(call.value)
            /\ d.ret = Some(call.value)
            /\ FindById(d.storage, k) = None

\* A successful insert into a store that already held a record
C7_Witness ==
    /\ call.op = "insert"
    /\ result.kind = "Ok"
    /\ Pre # EmptyMap

\* C8: insert_many answers Cardinality, and changes nothing, for every batch in
\* which two values derive the same key, whatever the store holds.
C8_BatchKey(i) ==
    IF identifier = "CountryId" THEN call.values[i].id ELSE before.last_id + i

C8_Duplicated ==
    \E i, j \in DOMAIN call.values : i < j /\ C8_BatchKey(i) = C8_BatchKey(j)

C8_CardinalityFirst ==
    (call.op = "insert_many" /\ C8_Duplicated)
        => (result.kind = "Cardinality" /\ storage = Pre)

\* A Cardinality answer for a duplicated key that the store already holds
C8_Witness ==
    /\ call.op = "insert_many"
    /\ C8_Duplicated
    /\ result.kind = "Cardinality"
    /\ result.key \in PreKeys

\* C9: a successful insert_many of n values adds exactly n records: every key it
\* stores was absent before, every value is present under its key, the count
\* grows by n, and every earlier record keeps its key and value.
C9_InsertManySuccess ==
    (call.op = "insert_many" /\ result.kind = "Ok") =>
        LET n == Len(call.values)
            key(i) == derived[n + i]
        IN  /\ Len(derived) = 2 * n
            /\ \A i \in 1..n : key(i) \notin PreKeys /\ storage[key(i)] = call.values[i]
            /\ Keys = PreKeys \cup {key(i) : i \in 1..n}
            /\ Cardinality(Keys) = Cardinality(PreKeys) + n
            /\ Keeps(Pre)

\* A successful batch of two into a store that already held a record
C9_Witness ==
    /\ call.op = "insert_many"
    /\ result.kind = "Ok"
    /\ Len(call.values) = 2
    /\ Pre # EmptyMap

\* C10: with the field-based strategy, in every reachable state every record is
\* stored under the key the strategy derives from its current value.
C10_KeyedByValue ==
    identifier = "CountryId" => \A k \in Keys : CountryIdNewId(storage[k]) = k

\* The state after an update_many that changed the key set of a store
C10_Witness ==
    /\ identifier = "CountryId"
    /\ call.op = "update_many"
    /\ result.kind = "Ok"
    /\ Keys # PreKeys
    /\ Cardinality(Keys) >= 2

\* C14: delete_by_id(id) returns Some(prior value) and removes the record when id
\* is stored, returns None and changes nothing when it is not, never fails, and
\* leaves every record under another key alone.
C14_DeleteById ==
    call.op = "delete_by_id" =>
        /\ result.kind = "Ok"
        /\ IF call.id \in PreKeys
           THEN result.ret = Some(Pre[call.id]) /\ Keys = PreKeys \ {call.id}
           ELSE result.ret = None /\ storage = Pre
        /\ \A k \in PreKeys \ {call.id} : k \in Keys /\ storage[k] = Pre[k]

\* A stored record deleted from a store that holds another one
C14_Witness ==
    /\ call.op = "delete_by_id"
    /\ call.id \in PreKeys
    /\ Keys # {}

\* C15: delete_many removes exactly the records the predicate selects and leaves
\* the others unchanged; it returns one element per removed record, each Some of
\* the removed value, none None.
C15_DeleteMany ==
    call.op = "delete_many" =>
        /\ result.kind = "Ok"
        /\ Keys = Unselected
        /\ \A k \in Unselected : storage[k] = Pre[k]
        /\ Len(result.ret) = Cardinality(Selected)
        /\ \A i \in DOMAIN result.ret : result.ret[i] # None
        /\ \E o \in Orders(Selected) :
               result.ret = [i \in 1..Cardinality(Selected) |-> Some(Pre[o[i]])]

\* Two records removed, one left
C15_Witness ==
    /\ call.op = "delete_many"
    /\ Cardinality(Selected) >= 2
    /\ Unselected # {}

\* C16: find_many returns exactly the stored values that satisfy the matcher,
\* each once; sorted per the comparator when one is given; every stored value
\* with the default arguments; and it leaves the store unchanged.
C16_Sorted(order, found) ==
    \A i, j \in DOMAIN found : i < j => Compare(order, found[i], found[j]) <= 0

C16_FindMany ==
    call.op = "find_many" =>
        /\ result.kind = "Ok"
        /\ storage = Pre
        /\ \E o \in Orders(Selected) :
               result.ret = [i \in 1..Cardinality(Selected) |-> Pre[o[i]]]
        /\ call.order # "none" => C16_Sorted(call.order, result.ret)
        /\ call.matcher.kind = "all" => Len(result.ret) = Cardinality(PreKeys)

\* An ordered find that selected two records with different ranks and left one out
C16_Witness ==
    /\ call.op = "find_many"
    /\ call.order = "by_id"
    /\ Len(result.ret) >= 2
    /\ Unselected # {}
    /\ Compare(call.order, result.ret[1], result.ret[2]) < 0

\* C17: find_one returns the first element of what find_many returns on the same
\* store: None exactly when nothing matches, else Some of a matching value, a
\* least one under the ordering when an ordering is given.
C17_FindOne ==
    call.op = "find_one" =>
        /\ result.kind = "Ok"
        /\ storage = Pre
        /\ result.ret = None <=> Selected = {}
        /\ \E o \in Orders(Selected) : result.ret = First(FindMany(Pre, call.order, o))
        /\ result.ret # None =>
              /\ \E k \in Selected : result.ret = Some(Pre[k])
              /\ call.order # "none" =>
                     \A k \in Selected : Compare(call.order, result.ret[1], Pre[k]) <= 0

\* An ordered find_one over two matching records of different rank
C17_Witness ==
    /\ call.op = "find_one"
    /\ call.order = "by_id"
    /\ Cardinality(Selected) >= 2
    /\ result.ret # None
    /\ \E k \in Selected : Compare(call.order, result.ret[1], Pre[k]) < 0

\* C12: the Sequence strategy counts from 1: the k-th new_id call on a fresh
\* Sequence returns k whatever value it is passed, so each returned id is greater
\* than all ids returned before it; is_autogenerated is false.
C12_SequenceCounts ==
    identifier = "Sequence" =>
        /\ \A k \in DOMAIN issued : issued[k] = k
        /\ \A j, k \in DOMAIN issued : j < k => issued[j] < issued[k]
        /\ last_id = Len(issued) \/ \E t \in Threads : th[t].pc = "seq_read"
        /\ ~IsAutogenerated("Sequence")

\* The counter was asked as often as the cap allows, with different values
C12_Witness ==
    /\ identifier = "Sequence"
    /\ Len(issued) = MaxIssued
    /\ issued[MaxIssued] = MaxIssued
    /\ \E k \in DOMAIN storage : storage[k].id # k

\* C13: whatever the interleaving of the new_id calls on one Sequence (insert,
\* update, check_cardinality outside the store's guard, _insert_many inside it),
\* no id is issued twice.
C13_NoDuplicateId ==
    \A j, k \in DOMAIN issued : j # k => issued[j] # issued[k]

\* A new_id call made under the store's guard holds the counter while another
\* caller, outside the store's guard, waits to call new_id
C13_Witness ==
    /\ issued # <<>>
    /\ \E t, u \in Threads :
        /\ t # u
        /\ seq_guard = t
        /\ guard.holder = t
        /\ th[t].back = "stage_got"
        /\ th[u].pc \in {"insert_id", "update_id", "check"}

\* The steps at which a call acquires the store's guard
LockPcs == {"insert_lock", "update_cs", "find", "delete", "stage_lock", "update_many_lock"}

\* C11: calls are atomic to each other: a find_by_id, find_one or find_many
\* returns what it would return on the store as the completed calls left it,
\* never a result computed from another call's intermediate state; whenever no
\* caller is inside a critical section the store is such a state.
C11_FindsSeeWholeCalls ==
    [][/\ (guard.holder = NoThread /\ ~guard.poisoned) => storage = committed
       /\ \A t \in Threads :
            (th[t].pc = "find" /\ th'[t].pc = "returned" /\ th'[t].result.kind = "Ok") =>
                \E ids \in Orders(SelectedBy(committed, th[t].call)) :
                    th'[t].result = OkWith(FindAnswer(committed, th[t].call, ids))]_vars

\* A find is under way while an update_many or insert_many holds the guard over
\* an intermediate store on which the find would answer otherwise
C11_Witness ==
    \E t, u \in Threads :
        /\ th[t].pc = "find"
        /\ th[u].pc \in {"update_many_loop", "stage"}
        /\ guard.holder = u
        /\ (th[u].pc = "update_many_loop" => storage # committed)
        /\ (th[u].pc = "stage" => th[u].stage # EmptyMap)
        /\ \A ids \in Orders(SelectedBy(storage, th[t].call)) :
            \A cds \in Orders(SelectedBy(committed, th[t].call)) :
                FindAnswer(storage, th[t].call, ids) # FindAnswer(committed, th[t].call, cds)

\* C18: once a panic inside a critical section has poisoned the store's guard,
\* the guard is free, and every call that tries to acquire it returns Locking
\* with no data and leaves the half-updated store as it is.
C18_PoisonedLocking ==
    [][guard.poisoned =>
        /\ guard.holder = NoThread
        /\ storage' = storage
        /\ guard' = guard
        /\ \A t \in Threads :
            (th[t].pc \in LockPcs /\ th'[t] # th[t]) =>
                /\ th'[t].pc = "returned"
                /\ th'[t].result = ErrLocking]_vars

\* An updater panicked after the matched records were removed, and a later find
\* returned Locking
C18_Witness ==
    /\ guard.poisoned
    /\ storage # committed
    /\ \E t, u \in Threads :
        /\ th[t].pc = "panicked"
        /\ th[u].pc = "returned"
        /\ th[u].call.op \in {"find_by_id", "find_one", "find_many"}
        /\ th[u].result = ErrLocking

\* The callers whose insert returned, and those whose insert succeeded
Returned == {t \in Threads : th[t].pc = "returned"}
Winners == {t \in Returned : th[t].result = Ok}

\* C19: callers racing to insert values of one key k, absent from the store:
\* exactly one insert succeeds, every other one fails with Conflict(k), and the
\* store holds the winner's value under k.
C19_OneInsertWins ==
    /\ Cardinality(Winners) <= 1
    /\ \A w \in Winners : MapGet(storage, th[w].call.value.id) = Some(th[w].call.value)
    /\ \A t \in Returned \ Winners : th[t].result = ErrConflict(th[t].call.value.id)
    /\ Returned = Threads => Cardinality(Winners) = 1

\* All the racing inserts returned, and a loser's value differed from the winner's
C19_Witness ==
    /\ Returned = Threads
    /\ \E w \in Winners : \E t \in Threads \ Winners :
        /\ th[t].call.value.id = th[w].call.value.id
        /\ th[t].call.value # th[w].call.value
        /\ storage[th[w].call.value.id] = th[w].call.value

\* What a call returns: success or a typed failure
Typed == {"Ok", "Conflict", "KeyNotFound", "Cardinality", "Locking"}

\* C20: no deadlock between the store's guard and the Sequence counter's guard:
\* under fair scheduling, with no panicking closure, every call under way
\* eventually returns a success or a typed failure.
C20_EveryCallReturns ==
    \A t \in Threads :
        (th[t].pc \notin {"idle", "returned"}) ~>
            (th[t].pc = "returned" /\ th[t].result.kind \in Typed)

\* A caller holds the store's guard and waits for the counter, which is held by
\* a caller that will need the store's guard next
C20_Witness ==
    \E t, u \in Threads :
        /\ t # u
        /\ guard.holder = t
        /\ th[t].pc = "stage"
        /\ th[t].i <= Len(th[t].call.values)
        /\ seq_guard = u
        /\ th[u].back \in {"insert_lock", "update_cs"}

\* C21: with the Sequence strategy, whose is_autogenerated is false, update_many
\* keeps every matched record under its original key whatever the updater does
\* to the value: the key set is unchanged, the call never fails with Conflict,
\* and new_id is not called, so the counter is not advanced.
C21_SequenceKeepsKeys ==
    (call.op = "update_many" /\ identifier = "Sequence") =>
        /\ ~IsAutogenerated(identifier)
        /\ result = Ok
        /\ Keys = PreKeys
        /\ \A k \in Selected : storage[k] = Updated(k)
        /\ \A k \in Unselected : storage[k] = Pre[k]
        /\ derived = <<>>
        /\ last_id = before.last_id

\* Two matched records whose updated values carry one same id, which is also
\* the key of one of them: a store keyed by the value's id would collide
C21_Witness ==
    /\ call.op = "update_many"
    /\ identifier = "Sequence"
    /\ Cardinality(Selected) >= 2
    /\ \E j, k \in Selected :
        /\ j # k
        /\ Updated(j).id = Updated(k).id
        /\ Updated(j).id = k
        /\ Updated(j) # Pre[j]
        /\ storage[j] = Updated(j)

\* The counter the last call started from, and the length of its batch
PreCounter == before.last_id
BatchLen == Len(call.values)

\* C22: on a store keyed by a Sequence, with a single caller, insert_many of n
\* values calls new_id 2n times: from counter c it never fails with Cardinality
\* (nor Conflict), stores the values in batch order under c+n+1 .. c+2n, none
\* under c+1 .. c+n, and leaves the counter at c+2n.
C22_InsertManyCountsTwice ==
    (call.op = "insert_many" /\ identifier = "Sequence") =>
        /\ result = Ok
        /\ derived = [i \in 1..(2 * BatchLen) |-> PreCounter + i]
        /\ last_id = PreCounter + 2 * BatchLen
        /\ Keys = PreKeys \cup {PreCounter + BatchLen + i : i \in 1..BatchLen}
        /\ \A i \in 1..BatchLen :
            /\ storage[PreCounter + BatchLen + i] = call.values[i]
            /\ PreCounter + i \notin PreKeys
        /\ \A i \in 1..BatchLen : PreCounter + i \notin Keys
        /\ Keeps(Pre)

\* A batch of two different values
C22_Witness ==
    /\ call.op = "insert_many"
    /\ identifier = "Sequence"
    /\ BatchLen = 2
    /\ PreCounter + 1 \notin Keys
    /\ PreCounter + 2 \notin Keys
    /\ call.values[1] # call.values[2]
    /\ storage[PreCounter + 3] = call.values[1]
    /\ storage[PreCounter + 4] = call.values[2]

\* C23: on a store created by FakeDb::default every stored key is at most the
\* counter; so every update derives a key that is not stored, fails with
\* KeyNotFound, leaves the store unchanged and advances the counter by one.
C23_UpdateNeverFinds ==
    identifier = "Sequence" =>
        /\ \A k \in Keys : 1 <= k /\ k <= last_id
        /\ call.op = "update" =>
            /\ derived = <<PreCounter + 1>>
            /\ PreCounter + 1 \notin PreKeys
            /\ result = ErrKeyNotFound(PreCounter + 1)
            /\ storage = Pre
            /\ last_id = PreCounter + 1

\* An update with a value that is stored, under the greatest key issued
C23_Witness ==
    /\ call.op = "update"
    /\ identifier = "Sequence"
    /\ PreCounter \in PreKeys
    /\ Pre[PreCounter] = call.value
    /\ result.kind = "KeyNotFound"

====
